---------------------------- MODULE Spec2Model ----------------------------
(***************************************************************************)
(* Model of stock_values_retriever.py: CStockValuesRetriever and the       *)
(* __main__ block that drives it.                                          *)
(*                                                                         *)
(* Text is a sequence of one-character strings, so that strip(), replace() *)
(* lower() and the heading regex are computed character by character.      *)
(* Python values of different types are tagged records ([k |-> ...]).      *)
(***************************************************************************)
EXTENDS Integers, Sequences, FiniteSets, TLC

\* Largest number of data rows of an input file.
MaxRows == 2
\* Longest price text drawn in SpecPrice.
MaxLen == 4
\* response.status of a page that loaded (line 54).
STATUS_OK == 200

---------------------------------------------------------------------------
\* Python values.

None == [k |-> "None"]
False == [k |-> "False"]
\* A float NaN: what read_csv holds for a blank cell.
NaN == [k |-> "NaN"]
\* pandas.NA: the missing value of the 'string' dtype.
NA == [k |-> "NA"]
\* A blank cell of a CSV file.
Blank == [k |-> "blank"]
\* A str.
Str(s) == [k |-> "str", s |-> s]
\* A float with the decimal value m / 10^e, e least.
Num(m, e) == [k |-> "float", m |-> m, e |-> e]
\* The ValueError float() raises.
ValueError == [k |-> "ValueError"]
\* A locator whose element never shows up: text_content() raises TimeoutError.
Timeout == [k |-> "Timeout"]

\* bool(v) of what _get_stock_value / _get_last_update_timestamp return:
\* False and '' are falsy, every other str is truthy.
Truthy(v) == v.k = "str" /\ v.s # <<>>

---------------------------------------------------------------------------
\* str methods.

IsSpace(c) == c = " "

RECURSIVE LStrip(_)
LStrip(s) == IF s # <<>> /\ IsSpace(Head(s)) THEN LStrip(Tail(s)) ELSE s

RECURSIVE RStrip(_)
RStrip(s) ==
    IF s # <<>> /\ IsSpace(s[Len(s)]) THEN RStrip(SubSeq(s, 1, Len(s) - 1)) ELSE s

\* str.strip()
Strip(s) == RStrip(LStrip(s))

\* A replace() that stops after the first occurrence (replace(old, new, 1)).
RECURSIVE ReplaceFirst(_, _, _)
ReplaceFirst(s, old, new) ==
    IF s = <<>> THEN <<>>
    ELSE IF Head(s) = old THEN new \o Tail(s)
    ELSE <<Head(s)>> \o ReplaceFirst(Tail(s), old, new)

\* str.replace(old, new) for a one-character old: every occurrence, left to right.
RECURSIVE Replace(_, _, _)
Replace(s, old, new) ==
    IF s = <<>> THEN <<>>
    ELSE IF Head(s) = old THEN new \o Replace(Tail(s), old, new)
    ELSE <<Head(s)>> \o Replace(Tail(s), old, new)

\* old in s
Contains(s, old) == \E i \in 1..Len(s) : s[i] = old

\* One character of str.lower()
LowerChar(c) ==
    CASE c = "A" -> "a"
      [] c = "B" -> "b"
      [] c = "P" -> "p"
      [] c = "N" -> "n"
      [] OTHER -> c

\* str.lower()
Lower(s) == [i \in 1..Len(s) |-> LowerChar(s[i])]

\* re.compile(company_name + '$', re.I) searched in the heading's name: the
\* name, letter case ignored, ends the heading. (Names hold no regex
\* metacharacters.)
HeadingMatches(company_name, heading) ==
    LET n == Lower(company_name)
        h == Lower(heading)
    IN  /\ Len(n) <= Len(h)
        /\ SubSeq(h, Len(h) - Len(n) + 1, Len(h)) = n

---------------------------------------------------------------------------
\* float(str)

Digits == {"0", "1", "2", "3", "4", "5", "6", "7", "8", "9"}

IsDigit(c) == c \in Digits

DigitVal(c) ==
    CASE c = "0" -> 0 [] c = "1" -> 1 [] c = "2" -> 2 [] c = "3" -> 3
      [] c = "4" -> 4 [] c = "5" -> 5 [] c = "6" -> 6 [] c = "7" -> 7
      [] c = "8" -> 8 [] c = "9" -> 9

RECURSIVE IntOf(_)
IntOf(s) ==
    IF s = <<>> THEN 0
    ELSE IntOf(SubSeq(s, 1, Len(s) - 1)) * 10 + DigitVal(s[Len(s)])

\* m / 10^e in least terms of e: 7.50 and 7.5 are the same float.
RECURSIVE Normal(_, _)
Normal(m, e) ==
    IF e > 0 /\ m % 10 = 0 THEN Normal(m \div 10, e - 1) ELSE Num(m, e)

\* float(s) for text over digits, '.', ',', ' ' and letters that spell no
\* float: surrounding blanks are ignored, then digits with at most one '.'
\* and at least one digit are a number; anything else raises ValueError.
Float(s) ==
    LET t == Strip(s)
        dots == {i \in 1..Len(t) : t[i] = "."}
        digs == SelectSeq(t, IsDigit)
    IN  IF /\ \A i \in 1..Len(t) : IsDigit(t[i]) \/ t[i] = "."
           /\ Cardinality(dots) <= 1
           /\ digs # <<>>
        THEN Normal(IntOf(digs),
                    IF dots = {} THEN 0 ELSE Len(t) - (CHOOSE i \in dots : TRUE))
        ELSE ValueError

---------------------------------------------------------------------------
\* pandas: the rows of a frame are a sequence, row i having the index label i
\* (read_csv's RangeIndex); a row is a record of its cells.

\* A DataFrame object with these rows.
DataFrame(rows) == [k |-> "DataFrame", rows |-> rows]

\* A CSV file on disk with these rows.
CsvFile(rows) == [k |-> "file", rows |-> rows]

\* A live playwright object (driver, browser, context or page).
Obj == [k |-> "object"]

\* One cell as read_csv holds it: a blank cell is NaN.
ReadCell(c) == IF c = Blank THEN NaN ELSE c

\* pd.read_csv(input_path) of a file that holds a header and rows.
ReadCsv(file) ==
    [i \in 1..Len(file.rows) |->
        [name |-> file.rows[i].name,
         code |-> file.rows[i].code,
         value |-> ReadCell(file.rows[i].value),
         timestamp |-> ReadCell(file.rows[i].timestamp)]]

\* One cell of Series.astype('string'): NaN becomes pandas.NA, a str stays.
AsString(c) == IF c = NaN THEN NA ELSE c

\* df['timestamp'] = df['timestamp'].astype('string')
AsTypeString(df) ==
    [i \in 1..Len(df) |-> [df[i] EXCEPT !.timestamp = AsString(df[i].timestamp)]]

\* A frame assignment that adds a row at the end instead of setting a cell.
AtAppend(df, i, col, v) == Append(df, [df[i] EXCEPT ![col] = v])

\* df.at[i, col] = v on the rows of the frame
At(df, i, col, v) == [df EXCEPT ![i][col] = v]

\* One cell as to_csv writes it: NaN and pandas.NA are written blank.
WriteCell(c) == IF c \in {NaN, NA} THEN Blank ELSE c

\* df.to_csv(output_path, index=False): every row, in frame order.
ToCsv(df) ==
    [i \in 1..Len(df) |->
        [name |-> df[i].name,
         code |-> df[i].code,
         value |-> WriteCell(df[i].value),
         timestamp |-> WriteCell(df[i].timestamp)]]

---------------------------------------------------------------------------
\* Inputs: the input file and the pages the site serves.

BP == <<"B", "P">>
AB == <<"A", " ", "b">>
OldStamp == <<"o", "l", "d">>

\* The rows an input file is made of.
InputRows ==
    { [name |-> BP, code |-> <<"B", "P", ".">>, value |-> Blank, timestamp |-> Blank],
      [name |-> BP, code |-> <<"B", "P", ".">>, value |-> Num(875, 1),
       timestamp |-> Str(OldStamp)],
      [name |-> AB, code |-> <<"A", "B">>, value |-> Blank, timestamp |-> Blank] }

RowSeqs == UNION {[1..n -> InputRows] : n \in 0..MaxRows}

\* The input file: missing, of zero bytes, without a timestamp column, or a
\* header with the required columns and up to MaxRows rows.
InputFiles ==
    {[kind |-> k, rows |-> <<>>] : k \in {"missing", "empty", "nocol"}}
        \cup {[kind |-> "ok", rows |-> r] : r \in RowSeqs}

\* Headings: "bp" is BP in another letter case, "Na B" ends with "a B",
\* "BPx" ends with neither name.
Headings == { <<"b", "p">>, <<"N", "a", " ", "B">>, <<"B", "P", "x">> }

\* What the price element gives: no element, no text, or a text.
PriceOutcomes ==
    { Timeout, None,
      Str(<<" ", "1", ",", "2", "3", "4", ".", "5", " ">>),
      Str(<<"9", "0", ".", "5", "0">>),
      Str(<<"N", "/", "A">>) }

\* What the last-update element gives.
StampOutcomes == { Timeout, None, Str(<<" ", "1", "0", ":", "3", "0", " ">>) }

\* A page without content: what is shown when no document of the site loaded.
NoPage(nav, status) ==
    [nav |-> nav, status |-> status, landmark |-> FALSE, heading |-> <<>>,
     price |-> Timeout, stamp |-> Timeout]

\* The outcomes of page.goto(): it raises (navigation timeout), returns None,
\* returns a response with status 404 (over an empty document, or over one
\* that looks like BP's page), or a response with status 200 whose document
\* has or lacks the landmark, a heading, a price and a timestamp.
Pages ==
    { NoPage("raise", 0), NoPage("none", 0), NoPage("response", 404),
      NoPage("response", STATUS_OK),
      [nav |-> "response", status |-> 404, landmark |-> TRUE,
       heading |-> <<"b", "p">>, price |-> Str(<<"9", "0", ".", "5", "0">>),
       stamp |-> Str(<<" ", "1", "0", ":", "3", "0", " ">>)] }
        \cup { [nav |-> "response", status |-> STATUS_OK, landmark |-> TRUE,
                heading |-> h, price |-> p, stamp |-> t] :
               h \in Headings, p \in PriceOutcomes, t \in StampOutcomes }

---------------------------------------------------------------------------
\* CStockValuesRetriever's methods, as functions of what they read.

\* _setup when read_csv raises nothing but the frame is returned as read
\* for a file it cannot use: a missing or empty file gives one default row.
SetupFallback(file) ==
    IF file.kind = "ok"
    THEN [exc |-> "none", ret |-> TRUE,
          df |-> DataFrame(AsTypeString(ReadCsv(file)))]
    ELSE [exc |-> "none", ret |-> TRUE,
          df |-> DataFrame(<<[name |-> BP, code |-> <<"B", "P", ".">>,
                              value |-> NaN, timestamp |-> NA]>>)]

\* _setup(input_path): what it raises, what it returns, and self.df_in after.
Setup(file) ==
    CASE file.kind \in {"missing", "empty"} ->
            [exc |-> "none", ret |-> FALSE, df |-> None]
      [] file.kind = "nocol" ->
            [exc |-> "KeyError", ret |-> FALSE, df |-> DataFrame(ReadCsv(file))]
      [] file.kind = "ok" ->
            [exc |-> "none", ret |-> TRUE,
             df |-> DataFrame(AsTypeString(ReadCsv(file)))]

\* _verify_page without the status check.
VerifyPageNoStatus(s, company_name) ==
    /\ s.nav = "response"
    /\ s.landmark
    /\ HeadingMatches(company_name, s.heading)

\* _verify_page without the heading check.
VerifyPageNoHeading(s, company_name) ==
    s.nav = "response" /\ s.status = STATUS_OK /\ s.landmark

\* _verify_page(response, company_url, company_name)
VerifyPage(s, company_name) ==
    IF s.nav = "none" THEN FALSE
    ELSE IF s.status # STATUS_OK THEN FALSE
    ELSE IF ~s.landmark THEN FALSE
    ELSE IF ~HeadingMatches(company_name, s.heading) THEN FALSE
    ELSE TRUE

\* element.text_content() or ''
TextContentOr(e) == IF e = None THEN <<>> ELSE e.s

\* _get_stock_value with replace(',', '', 1).
GetStockValueFirstComma(s) ==
    IF s.price = Timeout THEN False
    ELSE LET raw_price == Strip(TextContentOr(s.price))
         IN  Str(IF ~Contains(raw_price, ",") THEN raw_price
                 ELSE ReplaceFirst(raw_price, ",", <<>>))

\* _get_stock_value()
GetStockValue(s) ==
    IF s.price = Timeout THEN False
    ELSE LET raw_price == Strip(TextContentOr(s.price))
         IN  Str(IF ~Contains(raw_price, ",") THEN raw_price
                 ELSE Replace(raw_price, ",", <<>>))

\* _get_last_update_timestamp()
GetLastUpdateTimestamp(s) ==
    IF s.stamp = Timeout THEN False
    ELSE Str(Strip(TextContentOr(s.stamp)))

\* name_converted and company_url of a row.
CompanyUrl(row) ==
    [code |-> row.code, slug |-> Replace(Lower(row.name), " ", <<"-">>)]

\* The loop that forgets to advance.
NextRowRetry(i) == i

\* The row iterrows() gives after row i.
NextRow(i) == i + 1

---------------------------------------------------------------------------
\* The program's state.

VARIABLES
    pc,           \* where the main program is
    inputFile,    \* the file at args.input
    output,       \* the file at args.output: None until written
    playwright,   \* self.playwright
    browser,      \* self.browser
    context,      \* self.context
    page,         \* self.page
    df_in,        \* self.df_in
    idx,          \* the row of the for loop
    site,         \* what the last page.goto() gave: the response and the document
    stock_value,  \* local of get_stock_values_csv
    timestamp,    \* local of get_stock_values_csv
    err,          \* the exception that is propagating, "none" if none
    acquired,     \* history: how often each session part was acquired
    released,     \* history: how often each session part was closed
    calls,        \* history: how often start() and stop() were entered
    writes,       \* history: how often the output file was written
    navs,         \* history: the page.goto() calls, in order
    solo          \* history: each processed row as processed from a frame of its own

vars ==
    <<pc, inputFile, output, playwright, browser, context, page, df_in, idx, site,
      stock_value, timestamp, err, acquired, released, calls, writes, navs, solo>>

session == <<playwright, browser, context, page, acquired, released, calls>>
locals == <<idx, site, stock_value, timestamp>>

Parts == {"playwright", "browser", "context", "page"}

\* The frame _setup leaves for the input file.
Frame0 == Setup(inputFile).df.rows

\* __init__ (lines 14-21), and __main__ up to the try statement.
Init ==
    /\ pc = "start"
    /\ inputFile \in InputFiles
    /\ output = None
    /\ playwright = None
    /\ browser = None
    /\ context = None
    /\ page = None
    /\ df_in = None
    /\ idx = 0
    /\ site = NoPage("none", 0)
    /\ stock_value = None
    /\ timestamp = None
    /\ err = "none"
    /\ acquired = [p \in Parts |-> 0]
    /\ released = [p \in Parts |-> 0]
    /\ calls = [start |-> 0, stop |-> 0]
    /\ writes = 0
    /\ navs = <<>>
    /\ solo = <<>>

\* An exception leaves the try block: the finally clause runs next.
Raise(e) == err' = e /\ pc' = "stop"

\* start(), line 106: sync_playwright().start() returns the driver or raises.
StartPlaywright ==
    /\ pc = "start"
    /\ calls' = [calls EXCEPT !.start = @ + 1]
    /\ \E ok \in BOOLEAN :
          IF ok
          THEN /\ playwright' = Obj
               /\ acquired' = [acquired EXCEPT !["playwright"] = @ + 1]
               /\ pc' = "launch"
               /\ err' = err
          ELSE /\ Raise("Error")
               /\ UNCHANGED <<playwright, acquired>>
    /\ UNCHANGED <<inputFile, output, browser, context, page, df_in, locals,
                   released, writes, navs, solo>>

\* start(), line 107: chromium.launch() returns the browser or raises.
LaunchBrowser ==
    /\ pc = "launch"
    /\ \E ok \in BOOLEAN :
          IF ok
          THEN /\ browser' = Obj
               /\ acquired' = [acquired EXCEPT !["browser"] = @ + 1]
               /\ pc' = "new_context"
               /\ err' = err
          ELSE /\ Raise("Error")
               /\ UNCHANGED <<browser, acquired>>
    /\ UNCHANGED <<inputFile, output, playwright, context, page, df_in, locals,
                   released, calls, writes, navs, solo>>

\* start(), lines 108-111: browser.new_context() returns the context or raises.
NewContext ==
    /\ pc = "new_context"
    /\ \E ok \in BOOLEAN :
          IF ok
          THEN /\ context' = Obj
               /\ acquired' = [acquired EXCEPT !["context"] = @ + 1]
               /\ pc' = "new_page"
               /\ err' = err
          ELSE /\ Raise("Error")
               /\ UNCHANGED <<context, acquired>>
    /\ UNCHANGED <<inputFile, output, playwright, browser, page, df_in, locals,
                   released, calls, writes, navs, solo>>

\* start(), line 112: context.new_page() returns the page or raises.
NewPage ==
    /\ pc = "new_page"
    /\ \E ok \in BOOLEAN :
          IF ok
          THEN /\ page' = Obj
               /\ acquired' = [acquired EXCEPT !["page"] = @ + 1]
               /\ pc' = "setup"
               /\ err' = err
          ELSE /\ Raise("Error")
               /\ UNCHANGED <<page, acquired>>
    /\ UNCHANGED <<inputFile, output, playwright, browser, context, df_in, locals,
                   released, calls, writes, navs, solo>>

\* get_stock_values_csv, lines 133-134: _setup, and the RuntimeError when it
\* returns False.
ReadInput ==
    /\ pc = "setup"
    /\ LET r == Setup(inputFile)
       IN  /\ df_in' = r.df
           /\ IF r.exc # "none" THEN Raise(r.exc)
              ELSE IF ~r.ret THEN Raise("RuntimeError")
              ELSE pc' = "loop" /\ err' = err
    /\ idx' = 1
    /\ UNCHANGED <<inputFile, output, session, site, stock_value, timestamp,
                   writes, navs, solo>>

\* get_stock_values_csv, lines 136-148: the next row, its URL, page.goto().
Goto ==
    /\ pc = "loop"
    /\ idx <= Len(df_in.rows)
    /\ navs' = Append(navs, [idx |-> idx, url |-> CompanyUrl(df_in.rows[idx])])
    /\ \E p \in Pages :
          /\ site' = p
          /\ IF p.nav = "raise" THEN Raise("TimeoutError")
             ELSE pc' = "verify" /\ err' = err
    /\ UNCHANGED <<inputFile, output, session, df_in, idx, stock_value, timestamp,
                   writes, solo>>

\* get_stock_values_csv, lines 150-153: skip the row unless the page verifies.
CheckPage ==
    /\ pc = "verify"
    /\ IF VerifyPage(site, df_in.rows[idx].name)
       THEN /\ pc' = "extract"
            /\ UNCHANGED <<idx, solo>>
       ELSE /\ pc' = "loop"
            /\ idx' = NextRow(idx)
            /\ solo' = Append(solo, Frame0[idx])
    /\ UNCHANGED <<inputFile, output, session, df_in, site, stock_value, timestamp,
                   err, writes, navs>>

\* get_stock_values_csv, lines 156-157: read the price and the timestamp.
Extract ==
    /\ pc = "extract"
    /\ stock_value' = GetStockValue(site)
    /\ timestamp' = GetLastUpdateTimestamp(site)
    /\ pc' = "update"
    /\ UNCHANGED <<inputFile, output, session, df_in, idx, site, err, writes,
                   navs, solo>>

\* Lines 159-162 on the rows of a frame, when float() raises nothing.
StoreRow(rows, i, sv, ts) ==
    LET a == IF Truthy(sv) THEN At(rows, i, "value", Float(sv.s)) ELSE rows
    IN  IF Truthy(ts) THEN At(a, i, "timestamp", Str(ts.s)) ELSE a

\* get_stock_values_csv, lines 159-164: store what was read in the row.
UpdateRow ==
    /\ pc = "update"
    /\ IF Truthy(stock_value) /\ Float(stock_value.s) = ValueError
       THEN /\ Raise("ValueError")
            /\ UNCHANGED <<df_in, idx, solo>>
       ELSE /\ df_in' = DataFrame(StoreRow(df_in.rows, idx, stock_value, timestamp))
            /\ solo' = Append(solo,
                              StoreRow(<<Frame0[idx]>>, 1, stock_value, timestamp)[1])
            /\ idx' = NextRow(idx)
            /\ pc' = "loop"
            /\ err' = err
    /\ UNCHANGED <<inputFile, output, session, site, stock_value, timestamp,
                   writes, navs>>

\* to_csv inside the loop body: the file is written on every pass.
SaveCsvInLoop ==
    /\ pc = "loop"
    /\ output' = CsvFile(ToCsv(df_in.rows))
    /\ writes' = writes + 1
    /\ pc' = IF idx > Len(df_in.rows) THEN "stop" ELSE "loop"
    /\ UNCHANGED <<inputFile, session, df_in, locals, err, navs, solo>>

\* get_stock_values_csv, lines 166-167: after the last row, write the file.
SaveCsv ==
    /\ pc = "loop"
    /\ idx > Len(df_in.rows)
    /\ output' = CsvFile(ToCsv(df_in.rows))
    /\ writes' = writes + 1
    /\ pc' = "stop"
    /\ UNCHANGED <<inputFile, session, df_in, locals, err, navs, solo>>

\* A stop() that closes the session only when the page exists.
StopIfPage ==
    /\ pc = "stop"
    /\ calls' = [calls EXCEPT !.stop = @ + 1]
    /\ released' =
          [p \in Parts |-> IF page # None THEN released[p] + 1 ELSE released[p]]
    /\ pc' = "exit"
    /\ UNCHANGED <<inputFile, output, playwright, browser, context, page, df_in,
                   locals, err, acquired, writes, navs, solo>>

\* The finally clause (lines 194-195) and stop() (lines 114-125): each part
\* that was assigned is closed; then the program ends, with a traceback when
\* an exception is propagating.
Stop ==
    /\ pc = "stop"
    /\ calls' = [calls EXCEPT !.stop = @ + 1]
    /\ released' =
          [released EXCEPT
              !["page"] = IF page # None THEN @ + 1 ELSE @,
              !["context"] = IF context # None THEN @ + 1 ELSE @,
              !["browser"] = IF browser # None THEN @ + 1 ELSE @,
              !["playwright"] = IF playwright # None THEN @ + 1 ELSE @]
    /\ pc' = "exit"
    /\ UNCHANGED <<inputFile, output, playwright, browser, context, page, df_in,
                   locals, err, acquired, writes, navs, solo>>

Next ==
    \/ StartPlaywright
    \/ LaunchBrowser
    \/ NewContext
    \/ NewPage
    \/ ReadInput
    \/ Goto
    \/ CheckPage
    \/ Extract
    \/ UpdateRow
    \/ SaveCsv
    \/ Stop

\* The main program (lines 190-195).
Spec == Init /\ [][Next]_vars

---------------------------------------------------------------------------
\* The price text as a pure input: the program right after a page verified
\* for the only row of its input, the page holding any short price text.

PriceChars == {"1", "0", ",", ".", " ", "x"}

\* The price text of the specification's example, "1,234.5".
ExampleText == <<"1", ",", "2", "3", "4", ".", "5">>

PriceTexts ==
    UNION {[1..n -> PriceChars] : n \in 0..MaxLen} \cup {ExampleText}

PriceRow ==
    [name |-> BP, code |-> <<"B", "P", ".">>, value |-> Num(875, 1),
     timestamp |-> Str(OldStamp)]

InitPrice ==
    /\ pc = "extract"
    /\ inputFile = [kind |-> "ok", rows |-> <<PriceRow>>]
    /\ output = None
    /\ playwright = Obj
    /\ browser = Obj
    /\ context = Obj
    /\ page = Obj
    /\ df_in = Setup(inputFile).df
    /\ idx = 1
    /\ \E t \in PriceTexts, st \in StampOutcomes :
          site = [nav |-> "response", status |-> STATUS_OK, landmark |-> TRUE,
                  heading |-> <<"b", "p">>, price |-> Str(t), stamp |-> st]
    /\ stock_value = None
    /\ timestamp = None
    /\ err = "none"
    /\ acquired = [p \in Parts |-> 1]
    /\ released = [p \in Parts |-> 0]
    /\ calls = [start |-> 1, stop |-> 0]
    /\ writes = 0
    /\ navs = <<[idx |-> 1, url |-> CompanyUrl(PriceRow)]>>
    /\ solo = <<>>

NextPrice ==
    \/ Extract
    \/ UpdateRow

\* Lines 156-162 for one row, over every price text.
SpecPrice == InitPrice /\ [][NextPrice]_vars

---------------------------------------------------------------------------
\* Properties.

\* get_stock_values_csv was called: start() acquired every session part.
Started == acquired["page"] = 1

\* The response is missing or its status is not 200 (lines 50-56).
BadResponse(s) == s.nav = "none" \/ (s.nav = "response" /\ s.status # STATUS_OK)

\* The page loaded and shows the landmark, under a heading that does not
\* match the company name (lines 64-69).
HeadingMismatch(s, company_name) ==
    /\ s.nav = "response"
    /\ s.status = STATUS_OK
    /\ s.landmark
    /\ ~HeadingMatches(company_name, s.heading)

\* The element exists and holds text other than blanks.
Present(e) == e.k = "str" /\ Strip(e.s) # <<>>

NotComma(c) == c # ","

\* The text with its surrounding blanks and every ',' left out.
Commaless(t) == SelectSeq(Strip(t), NotComma)

\* The row of the last page.goto().
LastRow == navs[Len(navs)].idx

\* C1: per-row failures never abort the batch: with a readable input file,
\* get_stock_values_csv raises nothing, whatever the pages of its rows give,
\* and the program ends with the output file written.
C1_RowFailuresNeverAbort ==
    (inputFile.kind = "ok" /\ Started) =>
        /\ err = "none"
        /\ pc = "exit" => output # None

\* C2: the session is opened once and closed exactly once on every exit
\* path: no part is acquired or closed twice, none is closed that was not
\* acquired, and when the program has ended start() and stop() ran once each
\* and every part that was acquired has been closed.
C2_SessionClosedOnce ==
    /\ \A p \in Parts : released[p] <= acquired[p] /\ acquired[p] <= 1
    /\ calls.start <= 1
    /\ calls.stop <= 1
    /\ pc = "exit" =>
          /\ calls = [start |-> 1, stop |-> 1]
          /\ \A p \in Parts : released[p] = acquired[p]

\* C2's case: start() failed after the browser was launched, the program
\* ended, and the browser and the driver are closed.
C2_Witness ==
    /\ pc = "exit"
    /\ err = "Error"
    /\ acquired = [p \in Parts |-> IF p \in {"playwright", "browser"} THEN 1 ELSE 0]
    /\ released = acquired

\* C3: the frame keeps the N rows of the input from _setup on, and the
\* output file holds exactly N rows, row i being input row i (its company
\* name and stock code), whatever each row's page gave.
C3_RowsPreserved ==
    /\ (inputFile.kind = "ok" /\ df_in # None) =>
          Len(df_in.rows) = Len(inputFile.rows)
    /\ output # None =>
          /\ Len(output.rows) = Len(inputFile.rows)
          /\ \A i \in 1..Len(output.rows) :
                /\ output.rows[i].name = inputFile.rows[i].name
                /\ output.rows[i].code = inputFile.rows[i].code

\* C3's case: the output of two rows of different companies, the first
\* updated from its page and the second skipped.
C3_Witness ==
    /\ output # None
    /\ Len(output.rows) = 2
    /\ output.rows[1].name # output.rows[2].name
    /\ output.rows[1].value # inputFile.rows[1].value
    /\ ~VerifyPage(site, inputFile.rows[2].name)
    /\ output.rows[2] = inputFile.rows[2]

\* C4: with a missing or empty input file no page is ever visited, the row
\* loop is never entered, nothing is written, and get_stock_values_csv ends
\* in the RuntimeError.
C4_FatalBeforeVisit ==
    inputFile.kind \in {"missing", "empty"} =>
        /\ navs = <<>>
        /\ pc \notin {"loop", "verify", "extract", "update"}
        /\ output = None
        /\ (Started /\ pc \in {"stop", "exit"}) => err = "RuntimeError"

\* C4's case: the program has ended on a missing input file.
C4_Witness ==
    /\ pc = "exit"
    /\ inputFile.kind = "missing"
    /\ err = "RuntimeError"
    /\ navs = <<>>
    /\ Started

\* C5: the step that follows a missing or non-200 response goes to the next
\* row without reading price or timestamp and leaves the frame as it is, the
\* row holding the value and timestamp _setup read; and when that row is the
\* last one, the output file holds for it the value and timestamp cells of
\* the input file.
C5_BadResponseKeepsRow ==
    [][ /\ (pc = "verify" /\ BadResponse(site)) =>
              /\ pc' = "loop"
              /\ UNCHANGED <<stock_value, timestamp>>
              /\ df_in' = df_in
              /\ df_in'.rows[idx].value = Frame0[idx].value
              /\ df_in'.rows[idx].timestamp = Frame0[idx].timestamp
        /\ (pc = "loop" /\ idx > Len(df_in.rows) /\ idx > 1 /\ BadResponse(site)) =>
              /\ output'.rows[idx - 1].value = inputFile.rows[idx - 1].value
              /\ output'.rows[idx - 1].timestamp = inputFile.rows[idx - 1].timestamp
      ]_vars

\* C5's case: the output was written after the last row's page answered
\* 404 over a document that shows BP's price, and the row, which had a
\* value and a timestamp, kept them.
C5_Witness ==
    /\ output # None
    /\ Len(output.rows) = 1
    /\ site.nav = "response"
    /\ site.status = 404
    /\ site.landmark
    /\ output.rows[1].value = Num(875, 1)
    /\ output.rows[1].timestamp = Str(OldStamp)

\* C6: every processed row holds what it holds when processed from a frame
\* of its own, every row not yet processed holds what _setup read, and the
\* row just skipped for a heading mismatch holds what _setup read: the
\* skipped row changes no cell, and no row depends on another row's page.
C6_MismatchSkipsRow ==
    (inputFile.kind = "ok" /\ df_in # None) =>
        LET read == Frame0
        IN  /\ Len(solo) <= Len(df_in.rows)
            /\ \A j \in 1..Len(df_in.rows) :
                  df_in.rows[j] = IF j <= Len(solo) THEN solo[j] ELSE read[j]
            /\ (pc = "loop" /\ idx > 1 /\ HeadingMismatch(site, read[idx - 1].name)) =>
                  df_in.rows[idx - 1] = read[idx - 1]

\* C6's case: the second row was just skipped for a heading mismatch, after
\* the first row was updated from its page.
C6_Witness ==
    /\ pc = "loop"
    /\ idx = 3
    /\ HeadingMismatch(site, Frame0[2].name)
    /\ df_in.rows[1].value # Frame0[1].value
    /\ df_in.rows[1].timestamp # Frame0[1].timestamp

\* C7: _get_stock_value returns the price text stripped and with every ','
\* left out, the other characters in order; when that text is a number the
\* row's value is that number, "1,234.5" giving 1234.5; when it is empty the
\* value is left alone.
C7_CommasRemoved ==
    /\ pc = "update" => stock_value = Str(Commaless(site.price.s))
    /\ (pc = "loop" /\ idx = 2) =>
          df_in.rows[1].value =
              IF Commaless(site.price.s) = <<>> THEN Frame0[1].value
              ELSE Float(Commaless(site.price.s))
    /\ (pc = "loop" /\ idx = 2 /\ site.price.s = ExampleText) =>
          df_in.rows[1].value = Num(12345, 1)

\* C7's case: the row was updated from the price text "1,234.5".
C7_Witness ==
    /\ pc = "loop"
    /\ idx = 2
    /\ site.price.s = ExampleText
    /\ df_in.rows[1].value = Num(12345, 1)

\* C8: once a row with a verified page is done with, its timestamp is the
\* page's when the page has one and the prior one otherwise, and its value
\* is the page's price when the page has one and the prior one otherwise,
\* each whatever the other is.
C8_IndependentUpdates ==
    (/\ inputFile.kind = "ok"
     /\ navs # <<>>
     /\ pc \in {"loop", "stop", "exit"}
     /\ site.nav = "response"
     /\ VerifyPage(site, Frame0[LastRow].name)) =>
        /\ df_in.rows[LastRow].timestamp =
              IF Present(site.stamp) THEN Str(Strip(site.stamp.s))
              ELSE Frame0[LastRow].timestamp
        /\ df_in.rows[LastRow].value =
              IF Present(site.price) THEN Float(Commaless(site.price.s))
              ELSE Frame0[LastRow].value

\* C9: page.goto() call i is for row i and its URL, there are never more
\* calls than rows, and when the output is written there is one per row.
C9_OneVisitPerRow ==
    /\ \A i \in 1..Len(navs) : navs[i].idx = i
    /\ navs # <<>> =>
          LET read == Frame0
          IN  /\ Len(navs) <= Len(read)
              /\ \A i \in 1..Len(navs) : navs[i].url = CompanyUrl(read[i])
    /\ output # None => Len(navs) = Len(inputFile.rows)

\* C9's case: a run of two rows ended with its output written, both rows
\* having failed (the first by its response, the second by verification).
C9_Witness ==
    /\ pc = "exit"
    /\ output # None
    /\ Len(navs) = 2
    /\ ~VerifyPage(site, Frame0[2].name)
    /\ df_in.rows = Frame0

\* C10: the output file is written at most once, only when every row has
\* been processed and nothing was raised; a run that raised wrote nothing.
C10_OutputOnlyAtEnd ==
    /\ writes <= 1
    /\ (output # None) <=> (writes = 1)
    /\ output # None =>
          /\ err = "none"
          /\ pc \in {"stop", "exit"}
          /\ idx > Len(df_in.rows)
          /\ Len(solo) = Len(df_in.rows)
    /\ err # "none" => output = None

\* C10's case: the run aborted on its second row after the first row's
\* value was retrieved, and no output exists.
C10_Witness ==
    /\ pc = "exit"
    /\ err = "ValueError"
    /\ idx = 2
    /\ df_in.rows[1].value # Frame0[1].value
    /\ output = None
    /\ writes = 0

=============================================================================
